---------------------------- MODULE Spec2Model ----------------------------
(***************************************************************************)
(* State machine of the Lucy chat surface:                                 *)
(*   src/features/lucy/components/lucy-chat-interface.tsx                  *)
(* LucyChatInterface (send / attachments / asset gallery / cinema entry)   *)
(* and CinemaMode (the auto-advancing playlist).  The useLucyChat hook     *)
(* (../hooks/use-lucy-chat) and ../constants are not part of the sources   *)
(* at hand; the operators that stand for them follow spec.md sections      *)
(* 4.2, 4.3 and 5 and are marked as such.                                   *)
(*                                                                         *)
(* React runs every handler to completion on one thread, so one action is  *)
(* one handler (or one continuation after an await) together with the      *)
(* re-render and effects it causes.  Remote calls (sendUserMessage's       *)
(* backend round trip, getAssets, getCinemaData, FileReader reads,         *)
(* setTimeout) are "in flight" between the action that issues them and the *)
(* action that completes them, and complete in any order.                  *)
(***************************************************************************)
EXTENDS Integers, Sequences, FiniteSets, TLC

\* ------------------------------------------------------------------ bounds
MaxSends == 2        \* sends issued in one run
MaxResets == 1       \* "New Project" clicks in one run
MaxFiles == 2        \* files picked in one run
MaxCinemaCalls == 2  \* getCinemaData calls outstanding at once
MaxEnds == 3         \* 'ended' events counted per mounted CinemaMode
MaxVideos == 3       \* longest playlist getCinemaData returns

\* Values of the text input, as sequences of UTF-16 code units: empty, blank
\* (space, TAB), and "a" between a no-break space and a line feed.
Texts == {<<>>, <<32, 9>>, <<160, 97, 10>>}

\* ------------------------------------------------------------------ state
VARIABLES
  \* useLucyChat (lines 35-45)
  messages, currentChatId, isProcessing, error,
  \* LucyChatInterface useState (lines 47-51)
  inputValue, attachments, assets, showCinema, cinemaData,
  \* CinemaMode (lines 372-374): index, and whether play() was called on the
  \* rendered <video> / <audio> element
  currentIndex, videoPlaying, audioPlaying,
  \* work in flight
  sendsInFlight,   \* sends whose sendUserMessage promise is not settled
  assetsInFlight,  \* number of getAssets(50) calls not yet returned
  cinemaInFlight,  \* number of getCinemaData() calls not yet returned
  readers,         \* FileReaders whose readAsDataURL has not finished
  refreshTimers,   \* sends whose setTimeout(loadAssets, 2000) is armed
  \* lifecycle
  crashed,         \* a render threw: React unmounted the tree
  \* history (not program state; read only by the properties)
  nSends,          \* sends issued so far; send k owns messages 2k-1 and 2k
  sentIn,          \* sentIn[k]: currentChatId when send k was issued
  refreshFired,    \* sends whose refresh timer has fired
  resolved,        \* sends whose placeholder was resolved (success or error)
  assetStarts,     \* per outstanding getAssets call, oldest first: the cache
                   \* when loadAssets issued it
  files,           \* files[f]: [readable, mime, appended] of picked file f
  lastEvent,       \* whether handleSend or a getAssets return ran last (and
                   \* what getAssets returned)
  endCount,        \* 'ended' events since CinemaMode mounted
  replaced         \* cinemaData was replaced while CinemaMode was mounted

chatVars == <<messages, currentChatId, isProcessing, error>>
inputVars == <<inputValue, attachments>>
cinemaVars == <<showCinema, cinemaData, currentIndex, videoPlaying,
                audioPlaying, cinemaInFlight, crashed, endCount, replaced>>
sendVars == <<sendsInFlight, refreshTimers, nSends, sentIn, refreshFired,
             resolved>>
assetVars == <<assets, assetsInFlight, assetStarts>>
fileVars == <<readers, files>>
vars == <<chatVars, inputVars, cinemaVars, sendVars, assetVars, fileVars,
          lastEvent>>

\* ------------------------------------------------------------ String.trim
\* The code units String.prototype.trim strips: ECMAScript WhiteSpace (TAB,
\* VT, FF, U+FEFF and the space separators) and LineTerminator (LF, CR,
\* U+2028, U+2029).
WhiteSpace ==
  {9, 11, 12, 32, 160, 5760, 8239, 8287, 12288, 65279} \cup (8192..8202)
LineTerminator == {10, 13, 8232, 8233}
IsSpace(c) == c \in WhiteSpace \cup LineTerminator

RECURSIVE TrimStart(_)
TrimStart(s) ==
  IF s # <<>> /\ IsSpace(Head(s)) THEN TrimStart(Tail(s)) ELSE s

RECURSIVE TrimEnd(_)
TrimEnd(s) ==
  IF s # <<>> /\ IsSpace(s[Len(s)])
  THEN TrimEnd(SubSeq(s, 1, Len(s) - 1))
  ELSE s

Trim(s) == TrimEnd(TrimStart(s))

\* ------------------------------------------------- values that can occur
\* Asset (lines 15-23): id and type are all the component reads.
Img == [id |-> "i1", type |-> "image"]
Vid == [id |-> "v1", type |-> "video"]
AssetLists == {<<>>, <<Img>>, <<Vid, Img>>}

\* getAssets(limit) -> {success, assets?} (line 68): assets may be missing.
AssetResults ==
  {[success |-> s, hasAssets |-> TRUE, assets |-> l] :
     s \in BOOLEAN, l \in AssetLists}
  \cup {[success |-> s, hasAssets |-> FALSE, assets |-> <<>>] : s \in BOOLEAN}

NoResult == [success |-> FALSE, hasAssets |-> FALSE, assets |-> <<>>]

\* File.type as the tokens of "major/minor"; the picker accepts image/*, audio/*
\* (line 315).
Mimes == {<<"image", "/", "png">>, <<"audio", "/", "mpeg">>}
FileKinds == {[readable |-> r, mime |-> m] : r \in BOOLEAN, m \in Mimes}

\* ------------------------------------------- useLucyChat (spec 4.2, 4.3)
UserMessageId(k) == 2 * k - 1
PlaceholderId(k) == 2 * k

UserMessage(k, text, atts) ==
  [id |-> UserMessageId(k), role |-> "user", text |-> text,
   attachments |-> atts, isLoading |-> FALSE, isError |-> FALSE]

Placeholder(k) ==
  [id |-> PlaceholderId(k), role |-> "model", text |-> <<>>,
   attachments |-> <<>>, isLoading |-> TRUE, isError |-> FALSE]

ReplyText == <<114>>
ErrorText == <<101>>

appendMessage(msgs, m) == Append(msgs, m)

HasPlaceholder(msgs, id) ==
  \E i \in DOMAIN msgs : msgs[i].id = id /\ msgs[i].isLoading

\* Resolve the loading message `id`: success sets the returned text, failure
\* sets isError and the user-facing error text (spec 4.3 steps 4, 5).
updatePlaceholder(msgs, id, ok) ==
  [i \in DOMAIN msgs |->
     IF msgs[i].id = id /\ msgs[i].isLoading
     THEN [msgs[i] EXCEPT !.text = IF ok THEN ReplyText ELSE ErrorText,
                          !.isLoading = FALSE,
                          !.isError = ~ok]
     ELSE msgs[i]]

\* sendUserMessage(text, atts) up to its backend call (spec 4.3 steps 2, 3):
\* the user message, then the placeholder; isProcessing goes up.
sendUserMessage(k, text, atts) ==
  /\ messages' = appendMessage(appendMessage(messages,
                                             UserMessage(k, text, atts)),
                               Placeholder(k))
  /\ isProcessing' = TRUE
  /\ sendsInFlight' = sendsInFlight \cup {k}
  /\ nSends' = k
  /\ sentIn' = Append(sentIn, currentChatId)
  /\ UNCHANGED <<currentChatId, error, resolved>>

\* sendUserMessage after its backend call returned or failed (spec 4.3 steps
\* 4, 5; 4.2 updatePlaceholder; 7): nothing compares the session of the send
\* with the current one (spec 5, 9), so a response whose placeholder is gone
\* is a NotFoundError, surfaced as the generic error.
sendUserMessageSettles(k, ok) ==
  /\ IF HasPlaceholder(messages, PlaceholderId(k))
     THEN /\ messages' = updatePlaceholder(messages, PlaceholderId(k), ok)
          /\ error' = error
          /\ resolved' = resolved \cup {k}
     ELSE /\ messages' = messages
          /\ error' = TRUE
          /\ resolved' = resolved
  /\ isProcessing' = FALSE
  /\ sendsInFlight' = sendsInFlight \ {k}
  /\ UNCHANGED <<currentChatId, nSends, sentIn>>

\* startNewChat (spec 4.2 reset): clears the timeline, new session identity.
startNewChat ==
  /\ messages' = <<>>
  /\ currentChatId' = currentChatId + 1
  /\ UNCHANGED <<isProcessing, error>>

\* LUCY_PLACEHOLDER_PROMPTS (../constants): a list of texts, here four.
LUCY_PLACEHOLDER_PROMPTS == <<<<160, 97, 10>>, <<32, 9>>, <<>>, <<98>>>>

\* ------------------------------------------------------ LucyChatInterface
\* lastEvent names handleSend and the getAssets continuation, nothing else.
Note(name) ==
  lastEvent' = [name |-> name, result |-> NoResult, start |-> <<>>]
Quiet == Note("other")

\* loadAssets up to its await (lines 67-68).
loadAssets ==
  /\ assetsInFlight' = assetsInFlight + 1
  /\ assetStarts' = Append(assetStarts, assets)

\* loadAssets after getAssets returned (lines 69-71).
AssetsAfter(result, cache) ==
  IF result.success /\ result.hasAssets THEN result.assets ELSE cache

\* ShouldReject without the trim(): only the empty string counts as blank.
ShouldRejectUntrimmed(text, atts) == text = <<>> /\ Len(atts) = 0

\* handleSend's guard (line 75).
ShouldReject(text, atts) == Trim(text) = <<>> /\ Len(atts) = 0

\* The armed refresh timers: unchanged while handleSend awaits (line 83),
\* one more once the await is over (line 86).
TimersBeforeAwait(timers, k) == timers
TimersAfterAwait(timers, k) == timers \cup {k}

\* SendButtonDisabled without the isProcessing term.
SendButtonDisabledUngated ==
  Trim(inputValue) = <<>> /\ Len(attachments) = 0

\* disabled= of the text input (line 328) and of the send button (line 335).
TextInputDisabled == isProcessing
SendButtonDisabled ==
  isProcessing \/ (Trim(inputValue) = <<>> /\ Len(attachments) = 0)

\* handleSend, lines 74-83: up to the await.
handleSend ==
  /\ Note("handleSend")
  /\ IF ShouldReject(inputValue, attachments)
     THEN UNCHANGED <<chatVars, inputVars, sendVars>>
     ELSE /\ nSends < MaxSends
          /\ inputValue' = <<>>
          /\ attachments' = <<>>
          /\ sendUserMessage(nSends + 1, inputValue, attachments)
          /\ refreshTimers' = TimersBeforeAwait(refreshTimers, nSends + 1)
          /\ UNCHANGED refreshFired
  /\ UNCHANGED <<cinemaVars, assetVars, fileVars>>

\* Send button click (lines 333-336).
ClickSend == ~crashed /\ ~SendButtonDisabled /\ handleSend

\* handleKeyDown with Enter, no shift (lines 89-94, 326-328).
EnterKey == ~crashed /\ ~TextInputDisabled /\ handleSend

\* handleSend, lines 83-86: the await is over; arm the refresh timer.  The
\* promise settles whether or not the tree is still mounted; after a render
\* crash the hook's set-state calls change nothing.
SendSettles(k, ok) ==
  /\ k \in sendsInFlight
  /\ IF crashed
     THEN /\ sendsInFlight' = sendsInFlight \ {k}
          /\ UNCHANGED <<chatVars, nSends, sentIn, resolved>>
     ELSE sendUserMessageSettles(k, ok)
  /\ refreshTimers' = TimersAfterAwait(refreshTimers, k)
  /\ Quiet
  /\ UNCHANGED <<inputVars, cinemaVars, assetVars, fileVars, refreshFired>>

\* setTimeout(loadAssets, 2000) fires (line 86); nothing cancels the timer.
TimerFires(k) ==
  /\ k \in refreshTimers
  /\ refreshTimers' = refreshTimers \ {k}
  /\ refreshFired' = refreshFired \cup {k}
  /\ loadAssets
  /\ Quiet
  /\ UNCHANGED <<chatVars, inputVars, cinemaVars, fileVars, sendsInFlight,
                 nSends, sentIn, resolved, assets>>

\* A list without its i-th element.
Remove(list, i) ==
  [j \in 1..(Len(list) - 1) |-> IF j < i THEN list[j] ELSE list[j + 1]]

\* The i-th outstanding getAssets(50) call returned (lines 68-71); after a
\* render crash setAssets changes nothing.
GetAssetsReturns(result, i) ==
  /\ assetsInFlight > 0
  /\ i \in 1..assetsInFlight
  /\ assetsInFlight' = assetsInFlight - 1
  /\ assetStarts' = Remove(assetStarts, i)
  /\ assets' = IF crashed THEN assets ELSE AssetsAfter(result, assets)
  /\ lastEvent' = [name |-> "getAssets", result |-> result,
                    start |-> assetStarts[i]]
  /\ UNCHANGED <<chatVars, inputVars, cinemaVars, sendVars, fileVars>>

\* "New Project" button (lines 165-171): no disabled attribute.
NewProject ==
  /\ ~crashed
  /\ currentChatId < MaxResets
  /\ startNewChat
  /\ Quiet
  /\ UNCHANGED <<inputVars, cinemaVars, sendVars, assetVars, fileVars>>

\* Text input onChange (line 325).
TypeText(t) ==
  /\ ~crashed
  /\ ~TextInputDisabled
  /\ t # inputValue
  /\ inputValue' = t
  /\ Quiet
  /\ UNCHANGED <<chatVars, attachments, cinemaVars, sendVars, assetVars,
                 fileVars>>

\* Array.slice(0, end) of a list.
Slice(list, end) ==
  SubSeq(list, 1, IF end < Len(list) THEN end ELSE Len(list))

\* The quick prompt buttons (line 291): the first three prompts.
QuickPrompts == Slice(LUCY_PLACEHOLDER_PROMPTS, 3)

\* Quick prompt button idx (lines 289-299): shown while the timeline is empty.
QuickPrompt(idx) ==
  /\ ~crashed
  /\ Len(messages) = 0
  /\ idx \in 0..(Len(QuickPrompts) - 1)
  /\ QuickPrompts[idx + 1] # inputValue
  /\ inputValue' = QuickPrompts[idx + 1]
  /\ Quiet
  /\ UNCHANGED <<chatVars, attachments, cinemaVars, sendVars, assetVars,
                 fileVars>>

\* -------------------------------------------------------- handleFileSelect
\* String.split: the pieces of `s` between occurrences of the token `sep`.
RECURSIVE SplitFrom(_, _, _)
SplitFrom(s, sep, piece) ==
  IF s = <<>> THEN <<piece>>
  ELSE IF Head(s) = sep THEN <<piece>> \o SplitFrom(Tail(s), sep, <<>>)
  ELSE SplitFrom(Tail(s), sep, Append(piece, Head(s)))

Split(s, sep) == SplitFrom(s, sep, <<>>)

\* String.startsWith
StartsWith(s, prefix) ==
  Len(s) >= Len(prefix) /\ SubSeq(s, 1, Len(prefix)) = prefix

\* FileReader.readAsDataURL's result, "data:<type>;base64,<payload>", as
\* tokens; the payload of file f is the token ToString(f).
DataURL(f, mime) == <<"data:">> \o mime \o <<";base64", ",", ToString(f)>>

\* reader.onload (lines 102-110): the record appended for file f.
Encode(f, mime) ==
  [data |-> Split(DataURL(f, mime), ",")[2],
   mimeType |-> mime,
   type |-> IF StartsWith(mime, <<"image", "/">>) THEN "image" ELSE "audio"]

\* AfterReadError as an onloadend handler would have it: a record is appended
\* whether or not the read succeeded, without payload.
AfterReadErrorAppending(atts, f, mime) ==
  Append(atts, [data |-> <<>>, mimeType |-> mime, type |-> "audio"])

\* A read that fails: the reader has no onerror handler (lines 101-111), the
\* pending list stays as it is.
AfterReadError(atts, f, mime) == atts

\* The files of one change event get the next ids.
NewFiles(picked) ==
  [i \in 1..Len(picked) |->
     [readable |-> picked[i].readable, mime |-> picked[i].mime, appended |-> 0]]

\* handleFileSelect (lines 96-118): one FileReader per picked file.
HandleFileSelect(picked) ==
  /\ ~crashed
  /\ Len(files) + Len(picked) <= MaxFiles
  /\ files' = files \o NewFiles(picked)
  /\ readers' = readers \cup (Len(files) + 1 .. Len(files) + Len(picked))
  /\ Quiet
  /\ UNCHANGED <<chatVars, inputVars, cinemaVars, sendVars, assetVars>>

\* reader.onload of file f (lines 102-110); after a render crash
\* setAttachments changes nothing.
ReaderLoads(f) ==
  /\ f \in readers
  /\ files[f].readable
  /\ readers' = readers \ {f}
  /\ attachments' = IF crashed THEN attachments
                    ELSE Append(attachments, Encode(f, files[f].mime))
  /\ files' = [files EXCEPT ![f].appended =
                 @ + (Len(attachments') - Len(attachments))]
  /\ Quiet
  /\ UNCHANGED <<chatVars, inputValue, cinemaVars, sendVars, assetVars>>

\* The read of file f fails: an error event nobody listens to.
ReaderFails(f) ==
  /\ f \in readers
  /\ ~files[f].readable
  /\ readers' = readers \ {f}
  /\ attachments' = AfterReadError(attachments, f, files[f].mime)
  /\ files' = [files EXCEPT ![f].appended =
                 @ + (Len(attachments') - Len(attachments))]
  /\ Quiet
  /\ UNCHANGED <<chatVars, inputValue, cinemaVars, sendVars, assetVars>>

\* removeAttachment(index) (lines 120-122, 273-278); index is 0-based.
Without(atts, index) ==
  [i \in 1..(Len(atts) - 1) |-> IF i <= index THEN atts[i] ELSE atts[i + 1]]

RemoveAttachment(index) ==
  /\ ~crashed
  /\ index \in 0..(Len(attachments) - 1)
  /\ attachments' = Without(attachments, index)
  /\ Quiet
  /\ UNCHANGED <<chatVars, inputValue, cinemaVars, sendVars, assetVars,
                 fileVars>>

\* --------------------------------------------------------------- cinema
\* getCinemaData() -> {success, data?: {videos, audio}} (lines 125-127).
Video(i) == [id |-> ToString(i), type |-> "video"]
VideoLists == {[i \in 1..n |-> Video(i)] : n \in 0..MaxVideos}
NoAudio == [present |-> FALSE, url |-> ""]
Audios == {NoAudio, [present |-> TRUE, url |-> ""],
           [present |-> TRUE, url |-> "u"]}
NoData == [present |-> FALSE, videos |-> <<>>, audio |-> NoAudio]
CinemaDatas ==
  {[present |-> TRUE, videos |-> v, audio |-> a] :
     v \in VideoLists, a \in Audios}
CinemaResults ==
  {[success |-> s, data |-> d] : s \in BOOLEAN, d \in CinemaDatas \cup {NoData}}

\* disabled= of the Cinema Mode button (line 202).
CinemaButtonDisabled ==
  Cardinality({i \in DOMAIN assets : assets[i].type = "video"}) = 0

\* <CinemaMode> is in the tree (line 350); it renders its player unless the
\* playlist is empty (lines 402-404).
CinemaMounted == showCinema /\ cinemaData.present
VideoRendered ==
  CinemaMounted /\ ~crashed /\ Len(cinemaData.videos) > 0

\* A render with a non-empty playlist reads videos[currentIndex].url
\* (lines 406, 426): past the end that is a TypeError.
RenderThrows(index, videos) == Len(videos) > 0 /\ index >= Len(videos)

\* Which elements the mount effect finds and plays (lines 376-384, 433).
AudioRendered(data) ==
  Len(data.videos) > 0 /\ data.audio.present /\ data.audio.url # ""

\* NextIndex with the comparison off by one (index < n).
NextIndexPastEnd(index, n) == IF index < n THEN index + 1 ELSE 0

\* handleVideoEnd (lines 386-393).
NextIndex(index, n) == IF index < n - 1 THEN index + 1 ELSE 0

\* First render of CinemaMode: useState(0), then both effects.
MountCinema(data) ==
  /\ currentIndex' = 0
  /\ crashed' = FALSE
  /\ videoPlaying' = (Len(data.videos) > 0)
  /\ audioPlaying' = AudioRendered(data)
  /\ endCount' = 0
  /\ replaced' = FALSE

\* CinemaMode re-rendered with new props: the index stays; the [audio] effect
\* (lines 376-384) runs again unless audio was and is null.
RerenderCinema(data) ==
  /\ currentIndex' = currentIndex
  /\ crashed' = RenderThrows(currentIndex, data.videos)
  /\ videoPlaying' =
       /\ ~RenderThrows(currentIndex, data.videos)
       /\ Len(data.videos) > 0
       /\ \/ cinemaData.audio.present
          \/ data.audio.present
          \/ (videoPlaying /\ Len(cinemaData.videos) > 0)
  /\ audioPlaying' =
       (~RenderThrows(currentIndex, data.videos) /\ AudioRendered(data))
  /\ endCount' = endCount
  /\ replaced' = TRUE

\* handleCinemaMode up to its await (lines 124-125, 200-202).
HandleCinemaMode ==
  /\ ~crashed
  /\ ~CinemaButtonDisabled
  /\ cinemaInFlight < MaxCinemaCalls
  /\ cinemaInFlight' = cinemaInFlight + 1
  /\ Quiet
  /\ UNCHANGED <<chatVars, inputVars, sendVars, assetVars, fileVars, showCinema, cinemaData, currentIndex, videoPlaying,
                 audioPlaying, crashed, endCount, replaced>>

\* handleCinemaMode after getCinemaData returned (lines 126-129); after a
\* render crash the set-state calls change nothing.
GetCinemaReturns(result) ==
  /\ cinemaInFlight > 0
  /\ cinemaInFlight' = cinemaInFlight - 1
  /\ IF ~crashed /\ result.success /\ result.data.present
     THEN /\ cinemaData' = result.data
          /\ showCinema' = TRUE
          /\ IF CinemaMounted
             THEN RerenderCinema(result.data)
             ELSE MountCinema(result.data)
     ELSE UNCHANGED <<showCinema, cinemaData, currentIndex, videoPlaying,
                      audioPlaying, crashed, endCount, replaced>>
  /\ Quiet
  /\ UNCHANGED <<chatVars, inputVars, sendVars, assetVars, fileVars>>

\* onEnded of the playing <video> (lines 386-400, 428).
HandleVideoEnd ==
  /\ VideoRendered
  /\ videoPlaying
  /\ endCount < MaxEnds
  /\ currentIndex' = NextIndex(currentIndex, Len(cinemaData.videos))
  /\ crashed' = RenderThrows(currentIndex', cinemaData.videos)
  /\ videoPlaying' = (currentIndex' # currentIndex /\ ~crashed')
  /\ audioPlaying' = (audioPlaying /\ ~crashed')
  /\ endCount' = endCount + 1
  /\ Quiet
  /\ UNCHANGED <<chatVars, inputVars, sendVars, assetVars, fileVars, showCinema, cinemaData, cinemaInFlight, replaced>>

\* Close button (lines 354, 411-416): CinemaMode unmounts.
CloseCinema ==
  /\ VideoRendered
  /\ showCinema' = FALSE
  /\ currentIndex' = 0
  /\ videoPlaying' = FALSE
  /\ audioPlaying' = FALSE
  /\ endCount' = 0
  /\ replaced' = FALSE
  /\ Quiet
  /\ UNCHANGED <<chatVars, inputVars, sendVars, assetVars, fileVars, cinemaData, cinemaInFlight, crashed>>

\* ------------------------------------------------------ the state machine
\* The first render (useState initial values, lines 47-51, 372) followed by
\* the initial-load effect (lines 57-60), which React runs before it handles
\* any event: loadAssets() has issued its getAssets call.  loadChatHistory()
\* fills the hook's chat list, which this component never reads.
Init ==
  /\ messages = <<>>
  /\ currentChatId = 0
  /\ isProcessing = FALSE
  /\ error = FALSE
  /\ inputValue = <<>>
  /\ attachments = <<>>
  /\ assets = <<>>
  /\ showCinema = FALSE
  /\ cinemaData = NoData
  /\ currentIndex = 0
  /\ videoPlaying = FALSE
  /\ audioPlaying = FALSE
  /\ sendsInFlight = {}
  /\ assetsInFlight = 1
  /\ assetStarts = <<<<>>>>
  /\ cinemaInFlight = 0
  /\ readers = {}
  /\ refreshTimers = {}
  /\ crashed = FALSE
  /\ nSends = 0
  /\ sentIn = <<>>
  /\ refreshFired = {}
  /\ resolved = {}
  /\ files = <<>>
  /\ lastEvent = [name |-> "init", result |-> NoResult, start |-> <<>>]
  /\ endCount = 0
  /\ replaced = FALSE

Picks == UNION {[1..n -> FileKinds] : n \in 0..MaxFiles}

Next ==
  \/ \E t \in Texts : TypeText(t)
  \/ \E idx \in 0..(Len(LUCY_PLACEHOLDER_PROMPTS) - 1) : QuickPrompt(idx)
  \/ ClickSend
  \/ EnterKey
  \/ \E k \in 1..MaxSends, ok \in BOOLEAN : SendSettles(k, ok)
  \/ \E k \in 1..MaxSends : TimerFires(k)
  \/ \E r \in AssetResults, i \in 1..(MaxSends + 1) : GetAssetsReturns(r, i)
  \/ NewProject
  \/ \E p \in Picks : HandleFileSelect(p)
  \/ \E f \in 1..MaxFiles : ReaderLoads(f)
  \/ \E f \in 1..MaxFiles : ReaderFails(f)
  \/ \E i \in 0..(MaxFiles - 1) : RemoveAttachment(i)
  \/ HandleCinemaMode
  \/ \E r \in CinemaResults : GetCinemaReturns(r)
  \/ HandleVideoEnd
  \/ CloseCinema

Spec == Init /\ [][Next]_vars

(***************************************************************************)
(* The handlers fall into groups that meet in few variables.  Sending,     *)
(* typing and attaching never read assets, assetsInFlight or refreshFired  *)
(* and only add to refreshTimers.  The asset gallery reads refreshTimers   *)
(* and nothing of the attachments.  The cinema reads assets (the button's  *)
(* disabled=) and nothing else of the others.  Of the cinema the others    *)
(* read crashed only: a render that threw takes the whole tree down, and   *)
(* what is still in flight completes against an unmounted tree.  So each   *)
(* of the other groups is explored together with a cinema run that brings   *)
(* the crash about: a cache that lists a video, overlapping getCinemaData  *)
(* calls, and a playlist of two replaced by a playlist of one after the    *)
(* first video has ended.                                                  *)
(***************************************************************************)

\* getAssets results that enable the Cinema Mode button.
VideoCaches ==
  {r \in AssetResults : r.success /\ r.hasAssets /\ r.assets = <<Vid, Img>>}

\* getCinemaData results with a playlist of one or two videos, no audio.
ShortPlaylists ==
  {r \in CinemaResults :
     /\ r.success
     /\ r.data.present
     /\ r.data.audio = NoAudio
     /\ Len(r.data.videos) \in 1..2}

\* The cinema handlers on those results.
CinemaRun ==
  \/ HandleCinemaMode
  \/ \E r \in ShortPlaylists : GetCinemaReturns(r)
  \/ HandleVideoEnd
  \/ CloseCinema

\* Sending, typing, attaching, resetting.
NextSend ==
  \/ \E t \in Texts : TypeText(t)
  \/ \E idx \in 0..(Len(LUCY_PLACEHOLDER_PROMPTS) - 1) : QuickPrompt(idx)
  \/ ClickSend
  \/ EnterKey
  \/ \E k \in 1..MaxSends, ok \in BOOLEAN : SendSettles(k, ok)
  \/ NewProject
  \/ \E p \in Picks : HandleFileSelect(p)
  \/ \E f \in 1..MaxFiles : ReaderLoads(f)
  \/ \E f \in 1..MaxFiles : ReaderFails(f)
  \/ \E i \in 0..(MaxFiles - 1) : RemoveAttachment(i)
  \/ \E r \in VideoCaches, i \in 1..(MaxSends + 1) : GetAssetsReturns(r, i)
  \/ CinemaRun

SpecSend == Init /\ [][NextSend]_vars

\* Attaching alone: the file picker, the FileReaders, the remove buttons, and
\* the send that empties the attachment list.
NextFiles ==
  \/ ClickSend
  \/ \E k \in 1..MaxSends, ok \in BOOLEAN : SendSettles(k, ok)
  \/ \E p \in Picks : HandleFileSelect(p)
  \/ \E f \in 1..MaxFiles : ReaderLoads(f)
  \/ \E f \in 1..MaxFiles : ReaderFails(f)
  \/ \E i \in 0..(MaxFiles - 1) : RemoveAttachment(i)
  \/ \E r \in VideoCaches, i \in 1..(MaxSends + 1) : GetAssetsReturns(r, i)
  \/ CinemaRun

SpecFiles == Init /\ [][NextFiles]_vars

\* The asset gallery and everything that triggers its refresh.
NextAssets ==
  \/ \E t \in Texts : TypeText(t)
  \/ ClickSend
  \/ EnterKey
  \/ \E k \in 1..MaxSends, ok \in BOOLEAN : SendSettles(k, ok)
  \/ \E k \in 1..MaxSends : TimerFires(k)
  \/ \E r \in AssetResults, i \in 1..(MaxSends + 1) : GetAssetsReturns(r, i)
  \/ NewProject
  \/ CinemaRun

SpecAssets == Init /\ [][NextAssets]_vars

\* Cinema mode and the asset cache that enables its button.
NextCinema ==
  \/ \E r \in AssetResults, i \in 1..(MaxSends + 1) : GetAssetsReturns(r, i)
  \/ HandleCinemaMode
  \/ \E r \in CinemaResults : GetCinemaReturns(r)
  \/ HandleVideoEnd
  \/ CloseCinema

SpecCinema == Init /\ [][NextCinema]_vars

\* ------------------------------------------------------------- properties

\* C1: at most one send is in flight at any time, and while one is in flight
\* isProcessing is up, which disables both triggers of handleSend.
C1_SingleFlight ==
  /\ Cardinality(sendsInFlight) <= 1
  /\ sendsInFlight # {} => isProcessing

\* A send is pending while an attachment is ready: only the gate holds back
\* a second send.
C1_Witness == Cardinality(sendsInFlight) = 1 /\ Len(attachments) > 0

\* C2: a response to a send issued in an earlier session is discarded: it
\* leaves the timeline as it is and surfaces no error.
C2_StaleDiscard ==
  [][\A k \in sendsInFlight :
       (k \notin sendsInFlight' /\ sentIn[k] # currentChatId)
         => (messages' = messages /\ error' = error)]_vars

\* C3: while isProcessing is true the interface cannot trigger startNewChat.
C3_NoResetWhilePending == isProcessing => ~ENABLED NewProject

\* C4: in the timeline the user message of a send comes right before its
\* placeholder, and the refresh timer of a send fires only after that send's
\* placeholder has been resolved (success or error).
C4_SendOrdering ==
  \A k \in 1..nSends :
    /\ \A j \in DOMAIN messages :
         messages[j].id = PlaceholderId(k)
           => j > 1 /\ messages[j - 1].id = UserMessageId(k)
    /\ k \in refreshFired => k \in resolved

\* C5: handleSend on blank text and no attachments changes nothing: no send,
\* same timeline, same input and attachments, no refresh armed.
C5_EmptySendNoOp ==
  [][(lastEvent'.name = "handleSend"
        /\ Trim(inputValue) = <<>> /\ Len(attachments) = 0)
       => UNCHANGED <<chatVars, inputVars, sendVars, assetVars>>]_vars

\* handleSend ran on a whitespace-only text, which is still in the input.
C5_Witness ==
  /\ lastEvent.name = "handleSend"
  /\ inputValue = <<32, 9>>
  /\ Len(attachments) = 0
  /\ nSends = 0

\* C6: when a getAssets call returns failed or without a list, the cache is
\* what it was when loadAssets issued that call; the cache changes only in a
\* successful return, to the whole list that return carried.
C6_FailureKeepsCache ==
  [][/\ (/\ lastEvent'.name = "getAssets"
         /\ assetsInFlight' = assetsInFlight - 1
         /\ ~(lastEvent'.result.success /\ lastEvent'.result.hasAssets))
          => assets' = lastEvent'.start
     /\ assets' # assets
          => /\ lastEvent'.name = "getAssets"
             /\ lastEvent'.result.success
             /\ lastEvent'.result.hasAssets
             /\ assets' = lastEvent'.result.assets]_vars

\* C7: at most one getAssets request is outstanding at any time.
C7_Coalesced == assetsInFlight <= 1

\* C8: cinema mode is never open on an empty playlist, and nothing plays.
C8_EmptyPlaylistStaysIdle ==
  (cinemaData.present /\ Len(cinemaData.videos) = 0)
    => (~showCinema /\ ~videoPlaying /\ ~audioPlaying)

\* C9: on a playlist of n >= 1 videos entered at index 0, every 'ended' event
\* moves the index to (index + 1) mod n, after k events the index is k mod n,
\* and only the close button takes showCinema down.
C9_WrapInvariant ==
  [][/\ endCount' = endCount + 1
          => currentIndex' = (currentIndex + 1) % Len(cinemaData.videos)
     /\ (VideoRendered' /\ ~replaced')
          => /\ currentIndex' \in 0..(Len(cinemaData'.videos) - 1)
             /\ currentIndex' = endCount' % Len(cinemaData'.videos)
     /\ (showCinema /\ ~showCinema') => CloseCinema]_vars

\* Three videos, three 'ended' events: back at index 0.
C9_Witness ==
  /\ VideoRendered
  /\ ~replaced
  /\ Len(cinemaData.videos) = 3
  /\ endCount = 3
  /\ currentIndex = 0

\* C10: a file that cannot be read never has an entry; a file that was read
\* into the mounted component has exactly one, complete, entry; a file still
\* being read has none yet.  After a render crash no list is left to append
\* to: a read that ends then adds nothing.
C10_UnreadableDropped ==
  /\ \A f \in DOMAIN files :
       /\ files[f].appended \in {0, 1}
       /\ (~files[f].readable \/ f \in readers) => files[f].appended = 0
       /\ (files[f].readable /\ f \notin readers /\ ~crashed)
            => files[f].appended = 1
  /\ \A i \in DOMAIN attachments :
       \E f \in DOMAIN files :
         /\ files[f].readable
         /\ f \notin readers
         /\ files[f].appended = 1
         /\ attachments[i] =
              [data |-> <<ToString(f)>>,
               mimeType |-> files[f].mime,
               type |-> IF files[f].mime[1] = "image" THEN "image" ELSE "audio"]
  /\ \A i, j \in DOMAIN attachments :
       attachments[i].data = attachments[j].data => i = j

\* One read failed, one succeeded: exactly one entry is pending.
C10_Witness ==
  /\ \E f \in DOMAIN files : ~files[f].readable /\ f \notin readers
  /\ \E f \in DOMAIN files : files[f].readable /\ f \notin readers
  /\ Len(attachments) = 1

====
